---- MODULE Spec2Model ----
(***************************************************************************)
(* A model of anchorpy/idl.py: the JSON IDL pre-processing functions       *)
(* (_fix_error_msg, _fix_instructions_discriminants,                       *)
(* _load_instructions_discriminants) and the resolvers behind _from_json.  *)
(*                                                                         *)
(* Representation of JSON values:                                          *)
(*   - a JSON object is a TLA+ record, a missing key is a missing field;   *)
(*   - a JSON list is a sequence;                                          *)
(*   - a type-specification node is [k |-> "str", s |-> tag] for a JSON    *)
(*     string and [k |-> "obj", m |-> record] for a JSON object, so that   *)
(*     isinstance(x, str) is x.k = "str" and ("vec" in x) is               *)
(*     "vec" \in DOMAIN x.m;                                               *)
(*   - a name is a sequence of tokens; the token "Extension" stands for    *)
(*     the literal text Extension, every other token for one or more       *)
(*     characters that hold no part of it;                                 *)
(*   - an error message is a sequence of characters over                   *)
(*     {"a", " ", "nl"}, "nl" standing for the newline character.          *)
(* A Python exception is the value [k |-> "raise", exc |-> <class>].       *)
(* What print writes to the console is not part of the state.              *)
(***************************************************************************)
EXTENDS Integers, Sequences, FiniteSets, TLC

VARIABLES raw, pc, ret

vars == <<raw, pc, ret>>

\* ------------------------------------------------------------------ bounds

MaxInstr == 4

\* the nesting depth of the type specifications
MaxDepth == 3

\* the length of an error message, and of a message in a list of two errors
MaxMsgLen == 5
MaxShortMsgLen == 2

\* the fields of a struct or variant, the variants of an enum, the definitions
\* of a table
MaxFields == 2
MaxVariants == 2
MaxDefs == 2

\* int.to_bytes(x, 1, "big") holds one byte: 0 <= x < 256
ByteRange == 256

\* ------------------------------------------------------------ return values

NoReturn == [k |-> "none"]

Raise(e) == [k |-> "raise", exc |-> e]

\* the value is an exception: no other record has an exc field
IsRaise(r) == "exc" \in DOMAIN r

Str(s) == [k |-> "str", s |-> s]

Obj(m) == [k |-> "obj", m |-> m]

\* ------------------------------------------------- discriminant synthesis

\* re.match(r"^(?P<ext>.+Extension)(?P<name>.+)", name): the positions at which
\* the token Extension can end group ext: at least one character before it (.+)
\* and at least one after it (.+)
ExtPositions(name) ==
    {p \in 2..(Len(name) - 1) : name[p] = "Extension"}

ReMatch(name) == ExtPositions(name) # {}

\* match.group("ext"): .+ is greedy, so the last such Extension ends the group
MaxOf(S) == CHOOSE x \in S : \A y \in S : y <= x

MatchGroupExt(name) == SubSeq(name, 1, MaxOf(ExtPositions(name)))

\* the byte pair read in the wrong byte order
FromBytesLittleEndian(index, sub_index) == sub_index * ByteRange + index

\* int.from_bytes(int.to_bytes(index, 1, "big") + int.to_bytes(sub_index, 1, "big"), "big")
FromBytes(index, sub_index) == index * ByteRange + sub_index

\* ix["discriminant"] = d
SetDiscriminant(ix, d) ==
    [key \in (DOMAIN ix) \cup {"discriminant"} |->
        IF key = "discriminant" THEN d ELSE ix[key]]

\* the body of the for loop of _fix_instructions_discriminants, from the i-th
\* instruction on; acc is the list of the instructions already rewritten
RECURSIVE FixLoop(_, _, _, _, _, _)
FixLoop(ixs, i, index, sub_index, parent_extension, acc) ==
    IF i > Len(ixs) THEN [k |-> "doc", instructions |-> acc]
    ELSE LET ix == ixs[i] IN
      IF ReMatch(ix.name)
      THEN LET ext == MatchGroupExt(ix.name)
               switch == parent_extension # <<>> /\ parent_extension # ext
               index1 == IF switch THEN index + 1 ELSE index
               sub1 == IF switch THEN 0 ELSE sub_index
           IN IF index1 >= ByteRange \/ sub1 >= ByteRange
              THEN Raise("OverflowError")
              ELSE FixLoop(ixs, i + 1, index1, sub1 + 1, ext,
                       Append(acc, SetDiscriminant(ix,
                           [type |-> "u16", value |-> FromBytes(index1, sub1)])))
      ELSE LET index1 == IF parent_extension # <<>> THEN index + 1 ELSE index
           IN FixLoop(ixs, i + 1, index1 + 1, 0, <<>>,
                  Append(acc, SetDiscriminant(ix,
                      [type |-> "u8", value |-> index1])))

\* _fix_instructions_discriminants(raw): the document with its instruction list
\* rewritten (json.dumps of the updated document)
FixInstructionsDiscriminants(doc) ==
    IF "instructions" \notin DOMAIN doc THEN Raise("KeyError")
    ELSE LET r == FixLoop(doc.instructions, 1, 0, 0, <<>>, <<>>) IN
         IF IsRaise(r) THEN r
         ELSE [k |-> "doc",
               doc |-> [key \in DOMAIN doc |->
                   IF key = "instructions" THEN r.instructions ELSE doc[key]]]

\* hex(n) for n >= 0, without the 0x prefix: the digits of n in base 16, most
\* significant first, no leading zero (hex(0) is "0x0")
RECURSIVE Hex(_)
Hex(n) == IF n < 16 THEN <<n>> ELSE Append(Hex(n \div 16), n % 16)

\* discriminants[name] = v
SetItem(map, name, v) ==
    [n \in (DOMAIN map) \cup {name} |-> IF n = name THEN v ELSE map[n]]

\* the for loop of _load_instructions_discriminants
RECURSIVE LoadLoop(_, _, _)
LoadLoop(ixs, i, discriminants) ==
    IF i > Len(ixs) THEN discriminants
    ELSE LET ix == ixs[i] IN
         IF "discriminant" \in DOMAIN ix
         THEN LoadLoop(ixs, i + 1,
                  SetItem(discriminants, ix.name, Hex(ix.discriminant.value)))
         ELSE LoadLoop(ixs, i + 1, discriminants)

EmptyMap == [n \in {} |-> <<>>]

\* _load_instructions_discriminants(raw)
LoadInstructionsDiscriminants(doc) ==
    IF "instructions" \notin DOMAIN doc THEN Raise("KeyError")
    ELSE [k |-> "map", map |-> LoadLoop(doc.instructions, 1, EmptyMap)]

\* ------------------------------------------------------------------ inputs

Foo == <<"Foo">>
Baz == <<"Baz">>
BarExtensionA == <<"Bar", "Extension", "A">>
BarExtensionB == <<"Bar", "Extension", "B">>
QuxExtensionA == <<"Qux", "Extension", "A">>

\* instruction names: plain ones, two extension groups, a name that starts with
\* Extension, one that ends with it, and one that holds it twice
InstrNames ==
    {Foo, Baz, BarExtensionA, BarExtensionB, QuxExtensionA,
     <<"Extension", "A">>, <<"Bar", "Extension">>,
     <<"Bar", "Extension", "A", "Extension", "B">>}

ExplicitDiscriminant == [type |-> "u8", value |-> 7]

\* an instruction list of the given names, the e-th one (none for e = 0) with
\* an explicit discriminant
InstrList(names, e) ==
    [i \in 1..Len(names) |->
        IF i = e THEN [name |-> names[i], discriminant |-> ExplicitDiscriminant]
        ELSE [name |-> names[i]]]

InitDisc ==
    /\ \E n \in 0..MaxInstr : \E names \in [1..n -> InstrNames] : \E e \in 0..n :
           raw = [instructions |-> InstrList(names, e)]
    /\ pc = "start"
    /\ ret = NoReturn

\* fixed = _fix_instructions_discriminants(raw)
FixDiscriminants ==
    /\ pc = "start"
    /\ ret' = FixInstructionsDiscriminants(raw)
    /\ pc' = "fixed"
    /\ UNCHANGED raw

\* _load_instructions_discriminants(raw), the document as given
LoadRaw ==
    /\ pc = "start"
    /\ ret' = LoadInstructionsDiscriminants(raw)
    /\ pc' = "loaded_raw"
    /\ UNCHANGED raw

\* _load_instructions_discriminants(fixed), the synthesizer's output
LoadFixed ==
    /\ pc = "fixed"
    /\ ~IsRaise(ret)
    /\ ret' = LoadInstructionsDiscriminants(ret.doc)
    /\ pc' = "loaded"
    /\ UNCHANGED raw

NextDisc == FixDiscriminants \/ LoadRaw \/ LoadFixed

SpecDisc == InitDisc /\ [][NextDisc]_vars

\* ------------------------------------------------------------ type resolver

IdlTypeSimple(kind) == [k |-> "simple", ty |-> kind]

\* A call whose argument raised does not return: the constructors below hand
\* on the exception of the argument that is resolved inside the call.

IdlTypeArray(elem, n) ==
    IF IsRaise(elem) THEN elem ELSE [k |-> "array", elem |-> elem, len |-> n]

IdlTypeVec(inner) == IF IsRaise(inner) THEN inner ELSE [k |-> "vec", inner |-> inner]

IdlTypeDefined(name) == [k |-> "defined", name |-> name]

IdlTypeOption(inner) == IF IsRaise(inner) THEN inner ELSE [k |-> "option", inner |-> inner]

IdlTypeGenericLenArray(inner, n) ==
    IF IsRaise(inner) THEN inner ELSE [k |-> "genericLenArray", inner |-> inner, len |-> n]

\* _resolve_idl_type_simple(ty_str): an if/elif chain of string comparisons that
\* binds ty; with no branch taken ty is unbound and "return ty" raises
ResolveIdlTypeSimple(ty_str) ==
    IF ty_str = Str("u8") THEN IdlTypeSimple("U8")
    ELSE IF ty_str = Str("i8") THEN IdlTypeSimple("I8")
    ELSE IF ty_str = Str("u16") THEN IdlTypeSimple("U16")
    ELSE IF ty_str = Str("i16") THEN IdlTypeSimple("I16")
    ELSE IF ty_str = Str("u32") THEN IdlTypeSimple("U32")
    ELSE IF ty_str = Str("i32") THEN IdlTypeSimple("I32")
    ELSE IF ty_str = Str("u64") THEN IdlTypeSimple("U64")
    ELSE IF ty_str = Str("i64") THEN IdlTypeSimple("I64")
    ELSE IF ty_str = Str("publicKey") THEN IdlTypeSimple("PublicKey")
    ELSE IF ty_str = Str("string") THEN IdlTypeSimple("String")
    ELSE IF ty_str = Str("bool") THEN IdlTypeSimple("Bool")
    ELSE IF ty_str = Str("bytes") THEN IdlTypeSimple("Bytes")
    ELSE Raise("UnboundLocalError")

\* "marker" in input["type"]
In(marker, t) == marker \in DOMAIN t.m

\* the key of a hashMap pair, taken for its value
HashMapKeySpec(t) == t.m.hashMap[1]

\* input["type"]["hashMap"][1]
HashMapValueSpec(t) == t.m.hashMap[2]

\* _resolve_idl_type(input), input a JSON object with a "type" key
RECURSIVE ResolveIdlType(_)
ResolveIdlType(input) ==
    LET t == input.type IN
    IF t.k = "str" THEN ResolveIdlTypeSimple(t)
    ELSE IF In("array", t)
    THEN IdlTypeArray(ResolveIdlTypeSimple(t.m.array[1]), t.m.array[2])
    ELSE IF In("vec", t) THEN IdlTypeVec(ResolveIdlType([type |-> t.m.vec]))
    ELSE IF In("defined", t) THEN IdlTypeDefined(t.m.defined)
    ELSE IF In("option", t) THEN IdlTypeOption(ResolveIdlType([type |-> t.m.option]))
    ELSE IF In("hashMap", t)
    THEN IdlTypeGenericLenArray(ResolveIdlType([type |-> HashMapValueSpec(t)]), "hashMap")
    ELSE IdlTypeSimple("String")

\* ------------------------------------------------------ inputs: type specs

RecognizedTags ==
    {"u8", "i8", "u16", "i16", "u32", "i32", "u64", "i64",
     "publicKey", "string", "bool", "bytes"}

UnknownTags == {"u128", "f64", "U8", ""}

ScalarSpecs == {Str(tag) : tag \in RecognizedTags \cup UnknownTags}

NestedScalarSpecs == {Str("u8"), Str("publicKey"), Str("u128")}

ArraySpecs ==
    {Obj([array |-> <<e, 32>>]) :
        e \in NestedScalarSpecs \cup {Obj([vec |-> Str("u8")])}}

\* objects that carry two markers, or all of them, or none
MixedSpecs ==
    {Obj([array |-> <<Str("u8"), 32>>, vec |-> Str("i8")]),
     Obj([array |-> <<Str("u8"), 32>>, defined |-> <<"Foo">>]),
     Obj([array |-> <<Str("u8"), 32>>, option |-> Str("i8")]),
     Obj([array |-> <<Str("u8"), 32>>, hashMap |-> <<Str("string"), Str("i8")>>]),
     Obj([vec |-> Str("u8"), defined |-> <<"Foo">>]),
     Obj([vec |-> Str("u8"), option |-> Str("i8")]),
     Obj([vec |-> Str("u8"), hashMap |-> <<Str("string"), Str("i8")>>]),
     Obj([defined |-> <<"Foo">>, option |-> Str("i8")]),
     Obj([defined |-> <<"Foo">>, hashMap |-> <<Str("string"), Str("i8")>>]),
     Obj([option |-> Str("u8"), hashMap |-> <<Str("string"), Str("i8")>>]),
     Obj([array |-> <<Str("u8"), 32>>, vec |-> Str("i8"), defined |-> <<"Foo">>,
          option |-> Str("i16"), hashMap |-> <<Str("string"), Str("i32")>>]),
     Obj([coption |-> Str("publicKey"), prefix |-> Str("u8")]),
     Obj([coption |-> Str("publicKey")]),
     Obj([m \in {} |-> 0])}

\* the composite markers that hold an inner type specification
Wrapped(S) ==
    {Obj([vec |-> x]) : x \in S}
        \cup {Obj([option |-> x]) : x \in S}
        \cup {Obj([hashMap |-> <<Str("string"), x>>]) : x \in S}

RECURSIVE TypeSpecsOfDepth(_)
TypeSpecsOfDepth(d) ==
    IF d <= 1
    THEN NestedScalarSpecs \cup ArraySpecs \cup MixedSpecs
             \cup {Obj([defined |-> <<"Foo">>])}
    ELSE TypeSpecsOfDepth(d - 1) \cup Wrapped(TypeSpecsOfDepth(d - 1))

TypeSpecs == ScalarSpecs \cup TypeSpecsOfDepth(MaxDepth)

InitType ==
    /\ raw \in {[type |-> t] : t \in TypeSpecs}
    /\ pc = "start"
    /\ ret = NoReturn

\* _resolve_idl_type(raw)
ResolveType ==
    /\ pc = "start"
    /\ ret' = ResolveIdlType(raw)
    /\ pc' = "resolved"
    /\ UNCHANGED raw

\* _resolve_idl_type_simple(raw["type"])
ResolveSimple ==
    /\ pc = "start"
    /\ ret' = ResolveIdlTypeSimple(raw.type)
    /\ pc' = "resolved_simple"
    /\ UNCHANGED raw

NextType == ResolveType \/ ResolveSimple

SpecType == InitType /\ [][NextType]_vars

\* -------------------------------------------------------------- error table

\* \s of the pattern "\n\s*"
IsWhitespace(c) == c \in {" ", "nl"}

\* re.search("\n\s*", msg): the start of the leftmost match, 0 for no match
SearchStart(msg) ==
    IF \E i \in 1..Len(msg) : msg[i] = "nl"
    THEN CHOOSE i \in 1..Len(msg) :
             msg[i] = "nl" /\ \A j \in 1..(i - 1) : msg[j] # "nl"
    ELSE 0

\* the end of the match that starts at i: \s* takes all the whitespace after it
MatchEnd(msg, i) ==
    CHOOSE e \in i..Len(msg) :
        /\ \A j \in (i + 1)..e : IsWhitespace(msg[j])
        /\ e < Len(msg) => ~IsWhitespace(msg[e + 1])

\* match.group(0)
MatchGroup0(msg) == SubSeq(msg, SearchStart(msg), MatchEnd(msg, SearchStart(msg)))

\* s.replace(old, new), old not empty: the occurrences of old are taken from
\* left to right without overlap
RECURSIVE StrReplace(_, _, _)
StrReplace(s, old, new) ==
    IF Len(s) < Len(old) THEN s
    ELSE IF SubSeq(s, 1, Len(old)) = old
    THEN new \o StrReplace(SubSeq(s, Len(old) + 1, Len(s)), old, new)
    ELSE <<s[1]>> \o StrReplace(Tail(s), old, new)

\* the body of the for loop of _fix_error_msg, on one message
FixMsg(msg) ==
    IF SearchStart(msg) # 0 THEN StrReplace(msg, MatchGroup0(msg), <<" ">>) ELSE msg

\* _fix_error_msg(raw)
FixErrorMsg(doc) ==
    IF "errors" \notin DOMAIN doc THEN Raise("KeyError")
    ELSE [k |-> "doc",
          doc |-> [key \in DOMAIN doc |->
              IF key = "errors"
              THEN [i \in 1..Len(doc.errors) |->
                       [f \in DOMAIN doc.errors[i] |->
                           IF f = "msg" THEN FixMsg(doc.errors[i].msg)
                           ELSE doc.errors[i][f]]]
              ELSE doc[key]]]

IdlErrorCode(code, name, msg) == [code |-> code, name |-> name, msg |-> msg]

\* _resolve_errors(json_idl)
ResolveErrors(json_idl) ==
    IF "errors" \notin DOMAIN json_idl THEN [k |-> "list", items |-> <<>>]
    ELSE [k |-> "list",
          items |-> [i \in 1..Len(json_idl.errors) |->
              IdlErrorCode(json_idl.errors[i].code, json_idl.errors[i].name,
                           json_idl.errors[i].msg)]]

Chars == {"a", " ", "nl"}

MsgsUpTo(n) == UNION {[1..m -> Chars] : m \in 0..n}

ErrorEntry(i, msg) == [code |-> 6000 + i, name |-> <<"Err">>, msg |-> msg]

ErrorLists ==
    {<<>>} \cup {<<ErrorEntry(0, m)>> : m \in MsgsUpTo(MaxMsgLen)}
        \cup {<<ErrorEntry(0, m[1]), ErrorEntry(1, m[2])>> :
                 m \in MsgsUpTo(MaxShortMsgLen) \X MsgsUpTo(MaxShortMsgLen)}

ErrorDocs ==
    {[name |-> <<"idl">>]} \cup {[name |-> <<"idl">>, errors |-> l] : l \in ErrorLists}

InitErr ==
    /\ raw \in ErrorDocs
    /\ pc = "start"
    /\ ret = NoReturn

\* fixed = _fix_error_msg(raw)
FixErrors ==
    /\ pc = "start"
    /\ ret' = FixErrorMsg(raw)
    /\ pc' = "msg_fixed"
    /\ UNCHANGED raw

\* _resolve_errors(json.loads(raw))
ResolveErrorsRaw ==
    /\ pc = "start"
    /\ ret' = ResolveErrors(raw)
    /\ pc' = "errors_raw"
    /\ UNCHANGED raw

\* _resolve_errors(json.loads(fixed))
ResolveErrorsFixed ==
    /\ pc = "msg_fixed"
    /\ ~IsRaise(ret)
    /\ ret' = ResolveErrors(ret.doc)
    /\ pc' = "errors_fixed"
    /\ UNCHANGED raw

NextErr == FixErrors \/ ResolveErrorsRaw \/ ResolveErrorsFixed

SpecErr == InitErr /\ [][NextErr]_vars

\* ------------------------------------------- struct, enum and instructions

\* a list a function builds and returns
List(items) == [k |-> "list", items |-> items]

\* json_idl[key]: the value, or KeyError
GetItem(d, key) == IF key \in DOMAIN d THEN [k |-> "value", v |-> d[key]] ELSE Raise("KeyError")

IdlField(name, ty) == IF IsRaise(ty) THEN ty ELSE [name |-> name, ty |-> ty]

IdlAccount(name, isMut, isSigner) == [name |-> name, isMut |-> isMut, isSigner |-> isSigner]

IdlInstruction(name, accounts, args) ==
    [name |-> name, accounts |-> accounts, args |-> args.items]

IdlTypeDefinition(name, ty) == [name |-> name, ty |-> ty]

IdlTypeDefinitionTyStruct(fields) ==
    IF IsRaise(fields) THEN fields ELSE [k |-> "struct", fields |-> fields.items]

IdlTypeDefinitionTyEnum(variants) ==
    IF IsRaise(variants) THEN variants ELSE [k |-> "enum", variants |-> variants.items]

IdlEnumVariant(name, fields) == [name |-> name, fields |-> fields]

NoFields == [k |-> "none"]

EnumFieldsNamed(fields) == [k |-> "named", fields |-> fields]

EnumFieldsTuple(types) == [k |-> "tuple", types |-> types]

\* the one field appended for an arg, unless its type failed to resolve
OneField(a) == IF IsRaise(a) THEN a ELSE List(<<a>>)

\* the two fields appended for a coption with a prefix: the prefix is resolved
\* and appended first
TwoFields(a, b) ==
    IF IsRaise(a) THEN a ELSE IF IsRaise(b) THEN b ELSE List(<<a, b>>)

\* the fields one arg or account field gives: the coption branch of
\* _resolve_instructions and _resolve_accounts, and their else branch
CoptionFields(f) ==
    IF f.type.k # "str" /\ In("coption", f.type)
    THEN IF In("prefix", f.type)
         THEN TwoFields(
                  IdlField(f.name \o <<"_prefix">>, ResolveIdlTypeSimple(f.type.m.prefix)),
                  IdlField(f.name, ResolveIdlType([type |-> f.type.m.coption])))
         ELSE OneField(IdlField(f.name, ResolveIdlType([type |-> f.type.m.coption])))
    ELSE OneField(IdlField(f.name, ResolveIdlType(f)))

\* the loop over args (or over an account's fields), from the i-th one on; the
\* step takes what the i-th one gave
RECURSIVE CoptionFieldsLoop(_, _, _), CoptionFieldsStep(_, _, _, _)
CoptionFieldsLoop(fs, i, acc) ==
    IF i > Len(fs) THEN List(acc)
    ELSE CoptionFieldsStep(fs, i, acc, CoptionFields(fs[i]))

CoptionFieldsStep(fs, i, acc, r) ==
    IF IsRaise(r) THEN r ELSE CoptionFieldsLoop(fs, i + 1, acc \o r.items)

\* the loop over the fields of a custom struct type:
\* IdlField(f["name"], None, _resolve_idl_type(f))
RECURSIVE PlainFieldsLoop(_, _, _), PlainFieldsStep(_, _, _, _)
PlainFieldsLoop(fs, i, acc) ==
    IF i > Len(fs) THEN List(acc)
    ELSE PlainFieldsStep(fs, i, acc, IdlField(fs[i].name, ResolveIdlType(fs[i])))

PlainFieldsStep(fs, i, acc, field) ==
    IF IsRaise(field) THEN field ELSE PlainFieldsLoop(fs, i + 1, Append(acc, field))

\* the accounts of one instruction
InstructionAccounts(ix) ==
    [i \in 1..Len(ix.accounts) |->
        IdlAccount(ix.accounts[i].name, ix.accounts[i].isMut, ix.accounts[i].isSigner)]

\* the args of one instruction: none without an args key
InstructionArgs(ix) ==
    IF "args" \in DOMAIN ix THEN CoptionFieldsLoop(ix.args, 1, <<>>) ELSE List(<<>>)

\* the for loop of _resolve_instructions
RECURSIVE InstructionsLoop(_, _, _), InstructionsStep(_, _, _, _)
InstructionsLoop(ixs, i, instructions) ==
    IF i > Len(ixs) THEN List(instructions)
    ELSE IF "accounts" \notin DOMAIN ixs[i] THEN Raise("KeyError")
    ELSE InstructionsStep(ixs, i, instructions, InstructionArgs(ixs[i]))

InstructionsStep(ixs, i, instructions, args) ==
    IF IsRaise(args) THEN args
    ELSE InstructionsLoop(ixs, i + 1,
             Append(instructions,
                 IdlInstruction(ixs[i].name, InstructionAccounts(ixs[i]), args)))

\* _resolve_instructions(json_idl)
ResolveInstructions(json_idl) ==
    IF "instructions" \notin DOMAIN json_idl THEN Raise("KeyError")
    ELSE InstructionsLoop(json_idl.instructions, 1, <<>>)

\* the for loop of _resolve_accounts
RECURSIVE AccountsLoop(_, _, _), AccountsStep(_, _, _, _)
AccountsLoop(accs, i, accounts) ==
    IF i > Len(accs) THEN List(accounts)
    ELSE IF accs[i].type.kind = "struct"
    THEN AccountsStep(accs, i, accounts,
             IdlTypeDefinitionTyStruct(CoptionFieldsLoop(accs[i].type.fields, 1, <<>>)))
    ELSE AccountsLoop(accs, i + 1, accounts)

AccountsStep(accs, i, accounts, ty) ==
    IF IsRaise(ty) THEN ty
    ELSE AccountsLoop(accs, i + 1, Append(accounts, IdlTypeDefinition(accs[i].name, ty)))

\* _resolve_accounts(json_idl)
ResolveAccounts(json_idl) ==
    IF "accounts" \notin DOMAIN json_idl THEN Raise("KeyError")
    ELSE AccountsLoop(json_idl.accounts, 1, <<>>)

\* "name" in f, f an entry of a variant's fields list: a field object, or a
\* bare type specification (none of which has a name key here)
HasName(f) == "name" \in DOMAIN f

\* the loop over v["fields"]: the named and the positional entries, each
\* resolved in turn
RECURSIVE VariantFieldsLoop(_, _, _, _), VariantFieldsStep(_, _, _, _, _)
VariantFieldsLoop(fs, i, fields_named, fields_tuple) ==
    IF i > Len(fs)
    THEN [k |-> "buckets", fields_named |-> fields_named, fields_tuple |-> fields_tuple]
    ELSE IF HasName(fs[i])
    THEN VariantFieldsStep(fs, i, fields_named, fields_tuple,
             IdlField(fs[i].name, ResolveIdlType(fs[i])))
    ELSE VariantFieldsStep(fs, i, fields_named, fields_tuple,
             ResolveIdlType([type |-> fs[i]]))

VariantFieldsStep(fs, i, fields_named, fields_tuple, r) ==
    IF IsRaise(r) THEN r
    ELSE IF HasName(fs[i])
    THEN VariantFieldsLoop(fs, i + 1, Append(fields_named, r), fields_tuple)
    ELSE VariantFieldsLoop(fs, i + 1, fields_named, Append(fields_tuple, r))

\* the loop over t["type"]["variants"]
RECURSIVE VariantsLoop(_, _, _), VariantsStep(_, _, _, _)
VariantsLoop(vs, i, variants) ==
    IF i > Len(vs) THEN List(variants)
    ELSE IF "fields" \in DOMAIN vs[i]
    THEN VariantsStep(vs, i, variants, VariantFieldsLoop(vs[i].fields, 1, <<>>, <<>>))
    ELSE VariantsLoop(vs, i + 1, Append(variants, IdlEnumVariant(vs[i].name, NoFields)))

VariantsStep(vs, i, variants, b) ==
    IF IsRaise(b) THEN b
    ELSE IF Len(b.fields_named) > 0
    THEN VariantsLoop(vs, i + 1,
             Append(variants, IdlEnumVariant(vs[i].name, EnumFieldsNamed(b.fields_named))))
    ELSE IF Len(b.fields_tuple) > 0
    THEN VariantsLoop(vs, i + 1,
             Append(variants, IdlEnumVariant(vs[i].name, EnumFieldsTuple(b.fields_tuple))))
    ELSE VariantsLoop(vs, i + 1, variants)

\* the local ty of _resolve_types before its first assignment
Unbound == [k |-> "unbound"]

\* the for loop of _resolve_types; ty is a local of the function, so it keeps
\* its value from one entry to the next, and the step appends whatever it holds
RECURSIVE TypesLoop(_, _, _, _), TypesStep(_, _, _, _)
TypesLoop(ts, i, ty, types) ==
    IF i > Len(ts) THEN List(types)
    ELSE IF ts[i].type.kind = "enum"
    THEN TypesStep(ts, i, types,
             IdlTypeDefinitionTyEnum(VariantsLoop(ts[i].type.variants, 1, <<>>)))
    ELSE IF ts[i].type.kind = "struct"
    THEN TypesStep(ts, i, types,
             IdlTypeDefinitionTyStruct(PlainFieldsLoop(ts[i].type.fields, 1, <<>>)))
    ELSE TypesStep(ts, i, types, ty)

TypesStep(ts, i, types, ty) ==
    IF IsRaise(ty) THEN ty
    ELSE IF ty = Unbound THEN Raise("UnboundLocalError")
    ELSE TypesLoop(ts, i + 1, ty, Append(types, IdlTypeDefinition(ts[i].name, ty)))

\* _resolve_types(json_idl)
ResolveTypes(json_idl) ==
    IF "types" \notin DOMAIN json_idl THEN Raise("KeyError")
    ELSE TypesLoop(json_idl.types, 1, Unbound, <<>>)

\* Idl(version, name, [], [], instructions, accounts, types, [], errors,
\* metadata=...): the arguments are evaluated in this order, the first one that
\* raises ends the call
Idl(version, name, instructions, accounts, types, errors, metadata) ==
    IF IsRaise(version) THEN version
    ELSE IF IsRaise(name) THEN name
    ELSE IF IsRaise(instructions) THEN instructions
    ELSE IF IsRaise(accounts) THEN accounts
    ELSE IF IsRaise(types) THEN types
    ELSE IF IsRaise(errors) THEN errors
    ELSE IF IsRaise(metadata) THEN metadata
    ELSE [k |-> "idl",
          version |-> version.v,
          name |-> name.v,
          instructions |-> instructions.items,
          accounts |-> accounts.items,
          types |-> types.items,
          errors |-> errors.items,
          metadata |-> metadata.v]

\* _from_json(raw)
FromJson(json_idl) ==
    Idl(GetItem(json_idl, "version"), GetItem(json_idl, "name"),
        ResolveInstructions(json_idl), ResolveAccounts(json_idl),
        ResolveTypes(json_idl), ResolveErrors(json_idl),
        GetItem(json_idl, "metadata"))

\* ------------------------------------------------- inputs: definition tables

CoptionWithPrefix == Obj([coption |-> Str("publicKey"), prefix |-> Str("u8")])

CoptionNoPrefix == Obj([coption |-> Str("publicKey")])

Owner == <<"owner">>

FieldSpecs ==
    {[name |-> Owner, type |-> CoptionWithPrefix],
     [name |-> Owner, type |-> CoptionNoPrefix],
     [name |-> Owner, type |-> Str("publicKey")],
     [name |-> <<"amount">>, type |-> Str("u64")],
     [name |-> <<"data">>, type |-> Obj([vec |-> Str("u8")])]}

FieldLists == UNION {[1..n -> FieldSpecs] : n \in 0..MaxFields}

\* the entries of a variant's fields list: a named field, or a bare type
VariantFieldEntries ==
    {[name |-> <<"amount">>, type |-> Str("u64")], Str("u8"), Obj([vec |-> Str("u8")])}

\* a variant less its name: no fields key, or a fields list
VariantBodies ==
    {[f \in {} |-> <<>>]} \cup
    {[fields |-> l] : l \in UNION {[1..n -> VariantFieldEntries] : n \in 0..MaxFields}}

Named(i, prefix, body) ==
    [key \in (DOMAIN body) \cup {"name"} |->
        IF key = "name" THEN <<prefix, i>> ELSE body[key]]

\* the variant lists of up to n variants, named by position
VariantLists(n) ==
    {[i \in 1..Len(bs) |-> Named(i, "V", bs[i])] :
        bs \in UNION {[1..m -> VariantBodies] : m \in 0..n}}

\* the type of a definition: a struct, an enum of up to n variants, or a kind
\* that is neither
DefTypes(n) ==
    UNION {{[kind |-> "struct", fields |-> l] : l \in FieldLists},
           {[kind |-> "enum", variants |-> l] : l \in VariantLists(n)},
           {[kind |-> "alias"]}}

\* a definition table of the given types, named by position
DefList(ts) == [i \in 1..Len(ts) |-> [name |-> <<"T", i>>, type |-> ts[i]]]

AccountRefs == <<[name |-> <<"payer">>, isMut |-> TRUE, isSigner |-> TRUE]>>

InstructionLists ==
    {<<>>, <<[name |-> Foo, accounts |-> AccountRefs]>>}
        \cup {<<[name |-> Foo, accounts |-> AccountRefs, args |-> l]>> : l \in FieldLists}

Document(instructions, accounts, types) ==
    [version |-> <<"0.1.0">>, name |-> <<"idl">>, metadata |-> <<"meta">>,
     instructions |-> instructions, accounts |-> accounts, types |-> types]

InitDefs ==
    /\ \/ \E l \in InstructionLists : raw = Document(l, <<>>, <<>>)
       \/ \E n \in 0..MaxDefs : \E ts \in [1..n -> DefTypes(MaxVariants)] :
              \/ raw = Document(<<>>, DefList(ts), <<>>)
              \/ raw = Document(<<>>, <<>>, DefList(ts))
    /\ pc = "start"
    /\ ret = NoReturn

\* _resolve_instructions(json.loads(raw))
ResolveInstructionsCall ==
    /\ pc = "start"
    /\ ret' = ResolveInstructions(raw)
    /\ pc' = "instructions"
    /\ UNCHANGED raw

\* _resolve_accounts(json.loads(raw))
ResolveAccountsCall ==
    /\ pc = "start"
    /\ ret' = ResolveAccounts(raw)
    /\ pc' = "accounts"
    /\ UNCHANGED raw

\* _resolve_types(json.loads(raw))
ResolveTypesCall ==
    /\ pc = "start"
    /\ ret' = ResolveTypes(raw)
    /\ pc' = "types"
    /\ UNCHANGED raw

\* _from_json(raw)
FromJsonCall ==
    /\ pc = "start"
    /\ ret' = FromJson(raw)
    /\ pc' = "idl"
    /\ UNCHANGED raw

NextDefs ==
    ResolveInstructionsCall \/ ResolveAccountsCall \/ ResolveTypesCall \/ FromJsonCall

SpecDefs == InitDefs /\ [][NextDefs]_vars

\* ------------------------------------------- claims: discriminant synthesis

RawInstructions == raw.instructions

NoExplicitDiscriminant ==
    \A i \in 1..Len(RawInstructions) : "discriminant" \notin DOMAIN RawInstructions[i]

RawName(i) == RawInstructions[i].name

\* the name has the form <ext>Extension<rest>, both parts non-empty
IsExtensionName(n) ==
    \E p \in 1..Len(n) : n[p] = "Extension" /\ 1 < p /\ p < Len(n)

\* the group key: the longest leading part that ends right before an Extension
GroupKey(n) ==
    LET p == CHOOSE q \in 1..Len(n) :
                 /\ n[q] = "Extension" /\ 1 < q /\ q < Len(n)
                 /\ \A r \in (q + 1)..(Len(n) - 1) : n[r] # "Extension"
    IN SubSeq(n, 1, p - 1)

\* the extension group of instruction j ends right after it
GroupLeftAfter(j) ==
    /\ IsExtensionName(RawName(j))
    /\ \/ ~IsExtensionName(RawName(j + 1))
       \/ GroupKey(RawName(j + 1)) # GroupKey(RawName(j))

\* index at instruction i: one for every earlier plain instruction and one for
\* every earlier extension group that was left or switched away from
ExpectedIndex(i) ==
    Cardinality({j \in 1..(i - 1) : ~IsExtensionName(RawName(j))})
        + Cardinality({j \in 1..(i - 1) : GroupLeftAfter(j)})

\* the position of instruction i inside its run of same-group instructions
ExpectedSubIndex(i) ==
    LET InRun(s) == \A m \in s..i :
                        /\ IsExtensionName(RawName(m))
                        /\ GroupKey(RawName(m)) = GroupKey(RawName(i))
        start == CHOOSE s \in 1..i : InRun(s) /\ \A t \in 1..(s - 1) : ~InRun(t)
    IN i - start

ExpectedDiscriminant(i) ==
    IF IsExtensionName(RawName(i))
    THEN [type |-> "u16", value |-> 256 * ExpectedIndex(i) + ExpectedSubIndex(i)]
    ELSE [type |-> "u8", value |-> ExpectedIndex(i)]

\* the last instruction that carries the name of instruction i
LastNamed(i) ==
    CHOOSE j \in i..Len(RawInstructions) :
        /\ RawName(j) = RawName(i)
        /\ \A m \in (j + 1)..Len(RawInstructions) : RawName(m) # RawName(i)

WorkedExample == <<Foo, BarExtensionA, BarExtensionB, Baz>>

RawNames == [i \in 1..Len(RawInstructions) |-> RawName(i)]

\* C1: on an instruction list without explicit discriminants the synthesizer
\* gives every plain instruction the u8 discriminant index and every extension
\* instruction the u16 discriminant 256*index + sub_index, index and sub_index
\* counted in document order as the claim describes, and the discriminant map
\* reports these values in hex; Foo, BarExtensionA, BarExtensionB, Baz yields
\* 0x0, 0x100, 0x101, 0x2.
C1_SynthesisInDocumentOrder ==
    NoExplicitDiscriminant =>
        /\ pc = "fixed" =>
            /\ ret.k = "doc"
            /\ Len(ret.doc.instructions) = Len(RawInstructions)
            /\ \A i \in 1..Len(RawInstructions) :
                   ret.doc.instructions[i] =
                       [name |-> RawName(i), discriminant |-> ExpectedDiscriminant(i)]
        /\ pc = "loaded" =>
            /\ ret.k = "map"
            /\ DOMAIN ret.map = {RawName(i) : i \in 1..Len(RawInstructions)}
            /\ \A i \in 1..Len(RawInstructions) :
                   ret.map[RawName(i)] = Hex(ExpectedDiscriminant(LastNamed(i)).value)
            /\ RawNames = WorkedExample =>
                   /\ ret.map[Foo] = <<0>>
                   /\ ret.map[BarExtensionA] = <<1, 0, 0>>
                   /\ ret.map[BarExtensionB] = <<1, 0, 1>>
                   /\ ret.map[Baz] = <<2>>

C1_Witness ==
    /\ pc = "loaded"
    /\ NoExplicitDiscriminant
    /\ RawNames = WorkedExample
    /\ ret.map[BarExtensionB] = <<1, 0, 1>>

\* C2: an instruction that carries an explicit discriminant keeps it through
\* the synthesizer and the discriminant map reports hex(value) for it.
C2_ExplicitDiscriminantKept ==
    \A i \in 1..Len(RawInstructions) :
        "discriminant" \in DOMAIN RawInstructions[i] =>
            /\ pc = "fixed" /\ ret.k = "doc" =>
                   ret.doc.instructions[i].discriminant = RawInstructions[i].discriminant
            /\ pc = "loaded" /\ LastNamed(i) = i =>
                   ret.map[RawName(i)] = Hex(RawInstructions[i].discriminant.value)

\* C9: on an instruction list with pairwise distinct names and no explicit
\* discriminants, no two instructions are mapped to the same hex string.
C9_NoCollision ==
    (/\ pc = "loaded"
     /\ NoExplicitDiscriminant
     /\ \A i, j \in 1..Len(RawInstructions) : i # j => RawName(i) # RawName(j))
    => \A i, j \in 1..Len(RawInstructions) :
           i # j => ret.map[RawName(i)] # ret.map[RawName(j)]

\* ---------------------------------------------------- claims: type resolver

\* the scalar kind the claim gives each recognized tag
ScalarKindOf ==
    [tag \in RecognizedTags |->
        CASE tag = "u8" -> "U8" [] tag = "i8" -> "I8"
          [] tag = "u16" -> "U16" [] tag = "i16" -> "I16"
          [] tag = "u32" -> "U32" [] tag = "i32" -> "I32"
          [] tag = "u64" -> "U64" [] tag = "i64" -> "I64"
          [] tag = "publicKey" -> "PublicKey" [] tag = "string" -> "String"
          [] tag = "bool" -> "Bool" [] tag = "bytes" -> "Bytes"]

\* C4: the scalar mapper is total on strings: a recognized tag maps to its own
\* scalar kind, any other tag string gives the fallback Scalar(string) and does
\* not fail.
C4_ScalarMapperTotal ==
    (pc = "resolved_simple" /\ raw.type.k = "str") =>
        /\ ~IsRaise(ret)
        /\ raw.type.s \in RecognizedTags =>
               ret = [k |-> "simple", ty |-> ScalarKindOf[raw.type.s]]
        /\ raw.type.s \notin RecognizedTags =>
               ret = [k |-> "simple", ty |-> "String"]

\* the type a specification resolves to by the claim's rules; a failure of
\* the scalar mapper is the failure of the whole resolution
RECURSIVE Mirror(_)
Mirror(t) ==
    LET Has(marker) == t.k = "obj" /\ marker \in DOMAIN t.m
        Strict(r, built) == IF r.k = "raise" THEN r ELSE built
    IN CASE t.k = "str" -> ResolveIdlTypeSimple(t)
         [] Has("array") ->
                LET e == ResolveIdlTypeSimple(t.m.array[1])
                IN Strict(e, [k |-> "array", elem |-> e, len |-> t.m.array[2]])
         [] ~Has("array") /\ Has("vec") ->
                LET r == Mirror(t.m.vec) IN Strict(r, [k |-> "vec", inner |-> r])
         [] ~Has("array") /\ ~Has("vec") /\ Has("defined") ->
                [k |-> "defined", name |-> t.m.defined]
         [] ~Has("array") /\ ~Has("vec") /\ ~Has("defined") /\ Has("option") ->
                LET r == Mirror(t.m.option) IN Strict(r, [k |-> "option", inner |-> r])
         [] /\ ~Has("array") /\ ~Has("vec") /\ ~Has("defined") /\ ~Has("option")
            /\ Has("hashMap") ->
                LET r == Mirror(t.m.hashMap[2])
                IN Strict(r, [k |-> "genericLenArray", inner |-> r, len |-> "hashMap"])
         [] OTHER -> [k |-> "simple", ty |-> "String"]

VecOptionArray == Obj([vec |-> Obj([option |-> Obj([array |-> <<Str("u8"), 32>>])])])

\* C7: the type resolver mirrors the structure of the type specification, the
\* markers tested in the order bare string, array, vec, defined, option,
\* hashMap; {vec: {option: {array: [u8, 32]}}} resolves to
\* Vector(Option(FixedArray(Scalar(U8), 32))).
C7_ResolverMirrorsStructure ==
    pc = "resolved" =>
        /\ ret = Mirror(raw.type)
        /\ raw.type = VecOptionArray =>
               ret = [k |-> "vec", inner |->
                         [k |-> "option", inner |->
                             [k |-> "array", len |-> 32,
                              elem |-> [k |-> "simple", ty |-> "U8"]]]]
        /\ raw.type = Obj([hashMap |-> <<Str("string"), Obj([vec |-> Str("publicKey")])>>]) =>
               ret = [k |-> "genericLenArray", len |-> "hashMap", inner |->
                         [k |-> "vec", inner |-> [k |-> "simple", ty |-> "PublicKey"]]]

C7_Witness ==
    /\ pc = "resolved"
    /\ raw.type = VecOptionArray
    /\ ret.k = "vec"

\* ------------------------------------------------------ claims: error table

\* every run of a newline and the whitespace after it becomes one space, the
\* rest of the message stays as it is
RECURSIVE Collapsed(_)
Collapsed(msg) ==
    IF msg = <<>> THEN <<>>
    ELSE IF msg[1] = "nl"
    THEN LET rest == Tail(msg)
             skip == CHOOSE n \in 0..Len(rest) :
                         /\ \A j \in 1..n : rest[j] \in {" ", "nl"}
                         /\ n < Len(rest) => rest[n + 1] \notin {" ", "nl"}
         IN <<" ">> \o Collapsed(SubSeq(rest, skip + 1, Len(rest)))
    ELSE <<msg[1]>> \o Collapsed(Tail(msg))

HasNewline(msg) == \E i \in 1..Len(msg) : msg[i] = "nl"

\* C6: normalization replaces every run of a newline and its whitespace by
\* exactly one space and leaves the rest verbatim: the result holds no
\* newline, and a message without newlines is unchanged.
C6_EveryRunCollapsed ==
    (pc = "msg_fixed" /\ "errors" \in DOMAIN raw) =>
        \A i \in 1..Len(raw.errors) :
            LET msg == raw.errors[i].msg
                out == ret.doc.errors[i].msg
            IN /\ ~HasNewline(out)
               /\ out = Collapsed(msg)
               /\ ~HasNewline(msg) => out = msg

\* C8: on a document without an errors key, both the normalization and the
\* error table resolver complete, and the error table is empty.
C8_AbsentErrorsNonFatal ==
    "errors" \notin DOMAIN raw =>
        /\ pc = "msg_fixed" => ~IsRaise(ret)
        /\ pc = "errors_raw" => ret = [k |-> "list", items |-> <<>>]

\* ------------------------------------------------ claims: definition tables

IsCoption(f) == f.type.k = "obj" /\ "coption" \in DOMAIN f.type.m

\* the fields the claim gives one input field
ExpectedExpansion(f) ==
    IF IsCoption(f)
    THEN LET payload == [name |-> f.name, ty |-> ResolveIdlType([type |-> f.type.m.coption])]
         IN IF "prefix" \in DOMAIN f.type.m
            THEN <<[name |-> f.name \o <<"_prefix">>,
                    ty |-> ResolveIdlTypeSimple(f.type.m.prefix)], payload>>
            ELSE <<payload>>
    ELSE <<[name |-> f.name, ty |-> ResolveIdlType(f)]>>

RECURSIVE ExpectedFields(_)
ExpectedFields(fs) ==
    IF fs = <<>> THEN <<>> ELSE ExpectedExpansion(fs[1]) \o ExpectedFields(Tail(fs))

IsStructDef(d) == d.type.kind = "struct"

IsStructOrEnumDef(d) == d.type.kind \in {"struct", "enum"}

\* C3: every resolver expands a coption field: with a prefix into the two
\* fields n_prefix (the prefix scalar) and n (the payload type), without one
\* into the single field n (the payload type); for instruction arguments,
\* account struct fields and custom-type struct fields alike.
C3_CoptionExpandedEverywhere ==
    /\ (pc = "instructions" /\ ret.k = "list") =>
           \A i \in 1..Len(raw.instructions) :
               "args" \in DOMAIN raw.instructions[i] =>
                   ret.items[i].args = ExpectedFields(raw.instructions[i].args)
    /\ (pc = "accounts" /\ ret.k = "list") =>
           LET structs == SelectSeq(raw.accounts, IsStructDef)
           IN \A i \in 1..Len(structs) :
                  ret.items[i].ty.fields = ExpectedFields(structs[i].type.fields)
    /\ (pc = "types" /\ ret.k = "list") =>
           \A i \in 1..Len(raw.types) :
               IsStructDef(raw.types[i]) =>
                   ret.items[i].ty.fields = ExpectedFields(raw.types[i].type.fields)

\* C5: an entry whose kind is neither struct nor enum is skipped and the table
\* still assembles: resolution does not fail, no definition carries the
\* skipped entry's name, and the remaining entries come in document order,
\* each with the body resolved from its own fields or variants.  (For the
\* account table the statement is taken on tables without enum entries.)
C5_UnknownKindSkipped ==
    /\ pc = "types" =>
           LET kept == SelectSeq(raw.types, IsStructOrEnumDef)
           IN /\ ret.k = "list"
              /\ Len(ret.items) = Len(kept)
              /\ \A i \in 1..Len(kept) :
                     /\ ret.items[i].name = kept[i].name
                     /\ ret.items[i] = ResolveTypes([types |-> <<kept[i]>>]).items[1]
    /\ (pc = "accounts" /\ \A i \in 1..Len(raw.accounts) : raw.accounts[i].type.kind # "enum") =>
           LET kept == SelectSeq(raw.accounts, IsStructDef)
           IN /\ ret.k = "list"
              /\ Len(ret.items) = Len(kept)
              /\ \A i \in 1..Len(kept) :
                     /\ ret.items[i].name = kept[i].name
                     /\ ret.items[i] = ResolveAccounts([accounts |-> <<kept[i]>>]).items[1]

\* the shape the claim gives a variant
ExpectedVariantKind(v) ==
    IF "fields" \notin DOMAIN v THEN {"none"}
    ELSE IF \E j \in 1..Len(v.fields) : "name" \in DOMAIN v.fields[j] THEN {"named"}
    ELSE IF Len(v.fields) > 0 THEN {"tuple"}
    ELSE {"none", "named", "tuple"}

\* C10: an enum definition resolves to one variant per input variant, in
\* document order and with the same names: Unit without a fields key,
\* NamedFields with any named entry, TupleFields with positional entries only;
\* no variant is dropped, one with an empty fields list included.
C10_OneVariantPerInput ==
    (pc = "types" /\ ret.k = "list") =>
        \A i \in 1..Len(raw.types) :
            raw.types[i].type.kind = "enum" =>
                LET vs == raw.types[i].type.variants
                    out == ret.items[i].ty.variants
                IN /\ Len(out) = Len(vs)
                   /\ \A j \in 1..Len(vs) :
                          /\ out[j].name = vs[j].name
                          /\ out[j].fields.k \in ExpectedVariantKind(vs[j])

====
